---------------------------- MODULE Spec2Model ----------------------------
(***************************************************************************)
(* A model of wsdiff's token-diff merge, fold grouping and file loop        *)
(* (src/src/wsdiff.py: get_token_class, iter_token_lines,                   *)
(* RecordFormatter, html_diff_content, cli).                                *)
(*                                                                          *)
(* Text is a sequence of one-character strings.  The newline is NL, the    *)
(* two marker bytes of difflib._mdiff are NUL ("\0") and SOH ("\1").  An    *)
(* absent line number (difflib's '') is 0: both are falsy, and real line    *)
(* numbers start at 1.                                                      *)
(***************************************************************************)
EXTENDS Integers, Sequences, FiniteSets, TLC

VARIABLES
    tokensource,   \* the lexer's token stream: a sequence of [ttype, value]
    ti,            \* iter_token_lines: number of tokens consumed so far
    lineno,        \* iter_token_lines: its lineno counter
    yielded,       \* iter_token_lines: the pieces yielded so far
    side,          \* RecordFormatter.side
    diff,          \* RecordFormatter.diff (ours first, theirs second)
    di,            \* format: number of entries taken from iter(self.diff)
    cur,           \* format: index in diff of the entry the loop variables
                   \*   (lineno_ours, diff_ours, lineno_theirs, change) are
                   \*   bound to; 0 while they are unbound
    pi,            \* format: number of pieces consumed from iter_token_lines
    lines,         \* RecordFormatter.lines
    pc,            \* position of the program
    mdiff,         \* html_diff_content: list(difflib._mdiff(...))
    fmt_l,         \* html_diff_content: fmt_l.lines
    fmt_r,         \* html_diff_content: fmt_r.lines
    context_len,   \* html_diff_content: context_len
    fold_min,      \* html_diff_content: fold_min
    gi,            \* html_diff_content: number of zipped pairs grouped so far
    out,           \* html_diff_content: the out list
    args,          \* cli: the parsed arguments that the file loop reads
    old_path,      \* cli: what the path old is on disk
    new_path,      \* cli: what the path new is on disk
    found_files,   \* cli: sorted(found_files.items())
    fi,            \* cli: number of entries of found_files gone through
    lexer,         \* cli: the local variable lexer
    diff_blocks,   \* cli: the diff_blocks list
    raised         \* cli: the exception that ended the run, "" for none

vars == <<tokensource, ti, lineno, yielded, side, diff, di, cur, pi, lines,
          pc, mdiff, fmt_l, fmt_r, context_len, fold_min, gi, out,
          args, old_path, new_path, found_files, fi, lexer, diff_blocks,
          raised>>

lexVars == <<tokensource, ti, lineno, yielded>>
fmtVars == <<side, diff, di, cur, pi, lines, mdiff>>
foldVars == <<fmt_l, fmt_r, context_len, fold_min, gi, out>>
cliVars == <<args, old_path, new_path, found_files, fi, lexer, diff_blocks,
             raised>>

\* the state of cli while no command line is being processed
CliIdle ==
    /\ args = [lexer |-> "None"]
    /\ old_path = [kind |-> "file", content |-> "text", tree |-> <<>>]
    /\ new_path = [kind |-> "file", content |-> "text", tree |-> <<>>]
    /\ found_files = <<>> /\ fi = 0
    /\ lexer = "unbound" /\ diff_blocks = <<>> /\ raised = ""

NL == "\n"
FF == "\f"    \* a form feed: str.splitlines ends a line at it, the lexer does not
NUL == "NUL"
SOH == "SOH"

---------------------------------------------------------------------------
(* Sequence helpers *)

RECURSIVE Flatten(_)
Flatten(ss) == IF ss = <<>> THEN <<>> ELSE Head(ss) \o Flatten(Tail(ss))

SeqMap(Op(_), s) == [i \in 1..Len(s) |-> Op(s[i])]

RECURSIVE SelectIdx(_, _, _)
\* the elements s[i], in order, whose index i satisfies Keep
SelectIdx(s, Keep(_), i) ==
    IF i > Len(s) THEN <<>>
    ELSE (IF Keep(i) THEN <<s[i]>> ELSE <<>>) \o SelectIdx(s, Keep, i + 1)

Count(s, c) == Cardinality({i \in 1..Len(s) : s[i] = c})

\* all sequences over S of length at most n
SeqsUpTo(S, n) == UNION {[1..k -> S] : k \in 0..n}

\* s split on the separator c, as str.split does: Count(s, c) + 1 parts
RECURSIVE SplitOn(_, _)
SplitOn(s, c) ==
    IF \A i \in 1..Len(s) : s[i] # c THEN <<s>>
    ELSE LET i == CHOOSE i \in 1..Len(s) :
                      s[i] = c /\ \A j \in 1..(i - 1) : s[j] # c
         IN  <<SubSeq(s, 1, i - 1)>> \o SplitOn(SubSeq(s, i + 1, Len(s)), c)

---------------------------------------------------------------------------
(* iter_token_lines *)

\* str.partition('\n'): <<left, newline, right>>
Partition(value) ==
    IF \A i \in 1..Len(value) : value[i] # NL THEN <<value, <<>>, <<>>>>
    ELSE LET i == CHOOSE i \in 1..Len(value) :
                      value[i] = NL /\ \A j \in 1..(i - 1) : value[j] # NL
         IN  <<SubSeq(value, 1, i - 1), <<NL>>, SubSeq(value, i + 1, Len(value))>>

Piece(n, ttype, value) == [lineno |-> n, ttype |-> ttype, value |-> value]

\* the while loop and the trailing if of iter_token_lines, for one token:
\* the pieces the token yields and the lineno it leaves
RECURSIVE WhileNewline(_, _, _, _)
WhileNewline(n, ttype, part, acc) ==
    IF part[2] # <<>>
    THEN WhileNewline(n + 1, ttype, Partition(part[3]),
                      Append(acc, Piece(n, ttype, part[1])))
    ELSE [pieces |-> IF part[1] # <<>>
                     THEN Append(acc, Piece(n, ttype, part[1]))
                     ELSE acc,
          lineno |-> n]

\* faulty variant, for sensitivity: the piece before a newline is attributed to the line after it
RECURSIVE WhileNewlineLate(_, _, _, _)
WhileNewlineLate(n, ttype, part, acc) ==
    IF part[2] # <<>>
    THEN WhileNewlineLate(n + 1, ttype, Partition(part[3]),
                          Append(acc, Piece(n + 1, ttype, part[1])))
    ELSE [pieces |-> IF part[1] # <<>>
                     THEN Append(acc, Piece(n, ttype, part[1]))
                     ELSE acc,
          lineno |-> n]

TokenPiecesLate(n, tok) ==
    WhileNewlineLate(n, tok.ttype, Partition(tok.value), <<>>)

\* faulty variant, for sensitivity: the text after the last newline of a token is not yielded
RECURSIVE WhileNewlineOnly(_, _, _, _)
WhileNewlineOnly(n, ttype, part, acc) ==
    IF part[2] # <<>>
    THEN WhileNewlineOnly(n + 1, ttype, Partition(part[3]),
                          Append(acc, Piece(n, ttype, part[1])))
    ELSE [pieces |-> acc, lineno |-> n]

TokenPiecesNoTail(n, tok) ==
    IF \E i \in 1..Len(tok.value) : tok.value[i] = NL
    THEN WhileNewlineOnly(n, tok.ttype, Partition(tok.value), <<>>)
    ELSE WhileNewline(n, tok.ttype, Partition(tok.value), <<>>)

\* one iteration of the for loop of iter_token_lines
TokenPieces(n, tok) == WhileNewline(n, tok.ttype, Partition(tok.value), <<>>)

\* list(iter_token_lines(tokensource)), with the final lineno
RECURSIVE IterFrom(_, _, _, _)
IterFrom(toks, i, n, acc) ==
    IF i > Len(toks) THEN [pieces |-> acc, lineno |-> n]
    ELSE LET r == TokenPieces(n, toks[i])
         IN  IterFrom(toks, i + 1, r.lineno, acc \o r.pieces)

IterTokenLines(toks) == IterFrom(toks, 1, 1, <<>>)

\* the generator takes the next token and yields its pieces
IterToken ==
    /\ pc = "lex"
    /\ ti < Len(tokensource)
    /\ LET r == TokenPieces(lineno, tokensource[ti + 1])
       IN  /\ yielded' = yielded \o r.pieces
           /\ lineno' = r.lineno
    /\ ti' = ti + 1
    /\ UNCHANGED <<tokensource, pc>>
    /\ UNCHANGED fmtVars
    /\ UNCHANGED foldVars
    /\ UNCHANGED cliVars

\* the token stream is exhausted: the generator returns
IterStop ==
    /\ pc = "lex"
    /\ ti = Len(tokensource)
    /\ pc' = "lexed"
    /\ UNCHANGED lexVars
    /\ UNCHANGED fmtVars
    /\ UNCHANGED foldVars
    /\ UNCHANGED cliVars

---------------------------------------------------------------------------
(* get_token_class, over a small part of pygments' token type tree *)

TokenTypes == {"Token", "Token.Text", "Token.Keyword", "Token.Name",
               "Token.Name.Custom", "Token.Custom"}

\* ttype.parent
Parent(ttype) ==
    CASE ttype = "Token.Name.Custom" -> "Token.Name"
      [] OTHER -> "Token"

\* STANDARD_TYPES.get(ttype); "" also stands for the None of an unknown type:
\* the walrus test treats both alike
StandardType(ttype) ==
    CASE ttype = "Token.Keyword" -> "k"
      [] ttype = "Token.Name" -> "n"
      [] OTHER -> ""

\* faulty variant, for sensitivity: the parents of the type are not looked at
get_token_class_leaf(ttype) ==
    IF StandardType(ttype) # "" THEN <<"wsd-", StandardType(ttype)>>
    ELSE <<"n">>

\* A class string is a sequence of its parts: f'wsd-{name}' is <<"wsd-", name>>
RECURSIVE get_token_class(_)
get_token_class(ttype) ==
    IF StandardType(ttype) # "" THEN <<"wsd-", StandardType(ttype)>>
    ELSE IF ttype = "Token" THEN <<"n">>
    ELSE get_token_class(Parent(ttype))

---------------------------------------------------------------------------
(* html.escape *)

HtmlEscapeChar(c) ==
    CASE c = "&" -> "&amp;"
      [] c = "<" -> "&lt;"
      [] c = ">" -> "&gt;"
      [] c = "\"" -> "&quot;"
      [] c = "'" -> "&#x27;"
      [] OTHER -> c

HtmlEscape(s) == SeqMap(HtmlEscapeChar, s)

\* what a browser shows for an escaped character
HtmlUnescapeChar(c) ==
    CASE c = "&amp;" -> "&"
      [] c = "&lt;" -> "<"
      [] c = "&gt;" -> ">"
      [] c = "&quot;" -> "\""
      [] c = "&#x27;" -> "'"
      [] OTHER -> c

HtmlUnescape(s) == SeqMap(HtmlUnescapeChar, s)

---------------------------------------------------------------------------
(* The marker scanner: re.split(r'(\00.|\01|$)', diff_ours) and the zip    *)

\* re.split with the capturing group: span, separator, span, ..., span.
\* i is the position of the next character, span the text since the last
\* match, lastEmpty the position of the last empty match ($ matches at the
\* end and before a final newline, and not twice at one position).
RECURSIVE ReSplitFrom(_, _, _, _, _)
ReSplitFrom(s, i, span, acc, lastEmpty) ==
    IF i <= Len(s) /\ s[i] = NUL /\ i + 1 <= Len(s) /\ s[i + 1] # NL
    THEN ReSplitFrom(s, i + 2, <<>>, acc \o <<span, <<NUL, s[i + 1]>>>>, lastEmpty)
    ELSE IF i <= Len(s) /\ s[i] = SOH
    THEN ReSplitFrom(s, i + 1, <<>>, acc \o <<span, <<SOH>>>>, lastEmpty)
    ELSE IF (i = Len(s) + 1 \/ (i = Len(s) /\ s[i] = NL)) /\ lastEmpty # i
    THEN ReSplitFrom(s, i, <<>>, acc \o <<span, <<>>>>, i)
    ELSE IF i <= Len(s)
    THEN ReSplitFrom(s, i + 1, Append(span, s[i]), acc, lastEmpty)
    ELSE Append(acc, span)

ReSplit(s) == ReSplitFrom(s, 1, <<>>, <<>>, 0)

\* parts[start:-2:2], start counted from 0 as in Python
SliceStep2(parts, start) ==
    LET idx == {i \in start..(Len(parts) - 3) : (i - start) % 2 = 0}
    IN  [k \in 1..Cardinality(idx) |-> parts[start + 2 * (k - 1) + 1]]

\* zip(a, b)
Zip(a, b) ==
    LET n == IF Len(a) < Len(b) THEN Len(a) ELSE Len(b)
    IN  [k \in 1..n |-> <<a[k], b[k]>>]

Marker(pos, sep) == [pos |-> pos, sep |-> sep]

\* faulty variant, for sensitivity: the offsets count the marker bytes as well
RECURSIVE MarkersFromRaw(_, _, _)
MarkersFromRaw(zipped, k, source_pos) ==
    IF k > Len(zipped) THEN <<>>
    ELSE LET p == source_pos + Len(zipped[k][1])
         IN  <<Marker(p, zipped[k][2])>>
             \o MarkersFromRaw(zipped, k + 1, p + Len(zipped[k][2]))

\* the for loop over the zipped spans and separators
RECURSIVE MarkersFrom(_, _, _)
MarkersFrom(zipped, k, source_pos) ==
    IF k > Len(zipped) THEN <<>>
    ELSE LET p == source_pos + Len(zipped[k][1])
         IN  <<Marker(p, zipped[k][2])>> \o MarkersFrom(zipped, k + 1, p)

\* faulty variant, for sensitivity: the word markers are collected for whole-line changes too
DiffMarkersAlways(diff_ours, lineno_theirs) ==
    LET parts == ReSplit(diff_ours)
    IN  MarkersFrom(Zip(SliceStep2(parts, 0), SliceStep2(parts, 1)), 1, 0)

\* diff_markers of one line
DiffMarkers(diff_ours, lineno_theirs) ==
    LET parts == ReSplit(diff_ours)
    IN  IF lineno_theirs # 0
        THEN MarkersFrom(Zip(SliceStep2(parts, 0), SliceStep2(parts, 1)), 1, 0)
        ELSE <<>>

---------------------------------------------------------------------------
(* RecordFormatter *)

Sides == {"left", "right"}

\* __init__: for the right side every entry is turned round
SelfDiff(s, md) ==
    [j \in 1..Len(md) |->
        IF s = "right"
        THEN [ours |-> md[j].right, theirs |-> md[j].left, change |-> md[j].change]
        ELSE [ours |-> md[j].left, theirs |-> md[j].right, change |-> md[j].change]]

WordChange == " wsd-word-change"

\* One <span class="...">text</span> of a line.  cls and diff_class make up
\* the class attribute, text is the escaped text.  ttype and piece are
\* history fields: the type of the token the span was cut from and the
\* index of that token piece in its line.
Span(cls, diff_class, text, ttype, piece) ==
    [cls |-> cls, diff_class |-> diff_class, text |-> text,
     ttype |-> ttype, piece |-> piece]

\* the class of the piece cut off before a marker: f'wsd-{css_class}'
SplitLeftClass(css_class) == <<"wsd-">> \o css_class

\* faulty variant, for sensitivity: the marker at the first character of a token is passed over
MarkerInTokenStrict(source_pos, next_marker_pos, value) ==
    source_pos < next_marker_pos /\ next_marker_pos < source_pos + Len(value)

\* source_pos <= next_marker_pos < source_pos + len(value)
MarkerInToken(source_pos, next_marker_pos, value) ==
    source_pos <= next_marker_pos /\ next_marker_pos < source_pos + Len(value)

\* faulty variant, for sensitivity: the cut loses the character at the marker
SplitAtLossy(value, split_pos) ==
    <<SubSeq(value, 1, split_pos), SubSeq(value, split_pos + 2, Len(value))>>

\* left, value = value[:split_pos], value[split_pos:]
SplitAt(value, split_pos) ==
    <<SubSeq(value, 1, split_pos), SubSeq(value, split_pos + 1, Len(value))>>

\* ' wsd-word-change' if next_marker_type.startswith('\0') else ''
NextDiffClass(next_marker_type) ==
    IF Len(next_marker_type) > 0 /\ next_marker_type[1] = NUL
    THEN WordChange ELSE ""

\* The while loop over diff_markers for one token piece, and the span
\* emitted after it.  st is [spans, source_pos, diff_markers, diff_class].
RECURSIVE WhileMarkers(_, _, _, _, _)
WhileMarkers(value, css_class, ttype, k, st) ==
    IF /\ st.diff_markers # <<>>
       /\ MarkerInToken(st.source_pos, Head(st.diff_markers).pos, value)
    THEN LET m == Head(st.diff_markers)
             cut == SplitAt(value, m.pos - st.source_pos)
         IN  WhileMarkers(cut[2], css_class, ttype, k,
                 [spans |-> Append(st.spans,
                                Span(SplitLeftClass(css_class), st.diff_class,
                                     HtmlEscape(cut[1]), ttype, k)),
                  source_pos |-> st.source_pos + Len(cut[1]),
                  diff_markers |-> Tail(st.diff_markers),
                  diff_class |-> NextDiffClass(m.sep)])
    ELSE [spans |-> Append(st.spans,
                        Span(css_class, st.diff_class, HtmlEscape(value),
                             ttype, k)),
          source_pos |-> st.source_pos + Len(value),
          diff_markers |-> st.diff_markers,
          diff_class |-> st.diff_class]

\* the for loop over the token pieces of one line
RECURSIVE TokensLoop(_, _, _)
TokensLoop(tokens, k, st) ==
    IF k > Len(tokens) THEN st
    ELSE TokensLoop(tokens, k + 1,
             WhileMarkers(tokens[k].value, get_token_class(tokens[k].ttype),
                          tokens[k].ttype, k, st))

\* faulty variant, for sensitivity: every changed line is classed as a change
ChangeClassNoInsert(change, lineno_ours, lineno_theirs) ==
    IF ~change THEN "" ELSE " wsd-change"

ChangeClass(change, lineno_ours, lineno_theirs) ==
    IF ~change THEN ""
    ELSE IF lineno_ours = 0 \/ lineno_theirs = 0 THEN " wsd-insert"
    ELSE " wsd-change"

\* The record appended for a skipped or left-over diff entry.  src is a
\* history field: the index of the diff entry the record stands for.
EmptyRecord(s, src) ==
    [change |-> TRUE, kind |-> "empty", side |-> s, lineno |-> 0,
     cls |-> " wsd-empty", spans |-> <<>>, markers |-> <<>>,
     opens |-> 2, closes |-> 2, src |-> src]

\* The record appended for token line n, rendered with the loop variables
\* bound to diff entry e.  The markup is kept as its parts: the number shown,
\* the change class, the token spans, and the numbers of <span ...> and
\* </span> tags in the string.  markers (the diff_markers computed for the
\* line) and src (the index of e) are history fields.
RenderedRecord(s, n, e, src, tokens) ==
    LET diff_markers == DiffMarkers(e.ours[2], e.theirs[1])
        st == TokensLoop(tokens, 1,
                  [spans |-> <<>>, source_pos |-> 0,
                   diff_markers |-> diff_markers, diff_class |-> ""])
    IN  [change |-> e.change, kind |-> "line", side |-> s, lineno |-> n,
         cls |-> ChangeClass(e.change, e.ours[1], e.theirs[1]),
         spans |-> st.spans, markers |-> diff_markers,
         opens |-> 2 + Len(st.spans),
         \* lineno span, token spans, 'if css_class is not None', line span
         closes |-> 1 + Len(st.spans) + 1 + 1,
         src |-> src]

\* groupby: the pieces of the next token line, from piece number from + 1
GroupLen(ps, from) ==
    LET same == {k \in (from + 1)..Len(ps) :
                    \A j \in (from + 1)..k : ps[j].lineno = ps[from + 1].lineno}
    IN  Cardinality(same)

\* the alignment loop: the first entry after number from whose own line
\* number is n, or 0 when the iterator runs out
AlignTo(d, from, n) ==
    IF \E j \in (from + 1)..Len(d) : d[j].ours[1] = n
    THEN CHOOSE j \in (from + 1)..Len(d) :
             d[j].ours[1] = n /\ \A i \in (from + 1)..(j - 1) : d[i].ours[1] # n
    ELSE 0

EmptyRecords(s, from, to) == [k \in 1..(to - from) |-> EmptyRecord(s, from + k)]

\* One iteration of the outer for loop of format: the alignment loop, then
\* the line of the next group of token pieces.  When the alignment loop
\* never ran its body the loop variables are unbound and 'if not change'
\* raises UnboundLocalError.
FormatLine ==
    /\ pc = "format"
    /\ pi < Len(yielded)
    /\ LET n == yielded[pi + 1].lineno
           glen == GroupLen(yielded, pi)
           tokens == SubSeq(yielded, pi + 1, pi + glen)
           hit == AlignTo(diff, di, n)
           taken == IF hit # 0 THEN hit ELSE Len(diff)
           bound == IF taken > di THEN taken ELSE cur
           skipped == EmptyRecords(side, di, IF hit # 0 THEN hit - 1 ELSE taken)
       IN  /\ di' = taken
           /\ cur' = bound
           /\ pi' = pi + glen
           /\ IF bound = 0
              THEN /\ lines' = lines \o skipped
                   /\ pc' = "error"
              ELSE /\ lines' = Append(lines \o skipped,
                                   RenderedRecord(side, n, diff[bound], bound, tokens))
                   /\ pc' = "format"
    /\ UNCHANGED <<side, diff, mdiff>>
    /\ UNCHANGED lexVars
    /\ UNCHANGED foldVars
    /\ UNCHANGED cliVars

\* The token lines are used up: the last for loop appends a record for
\* every entry left in the iterator, and format returns.
FormatTail ==
    /\ pc = "format"
    /\ pi = Len(yielded)
    /\ lines' = lines \o EmptyRecords(side, di, Len(diff))
    /\ di' = Len(diff)
    /\ cur' = IF Len(diff) > di THEN Len(diff) ELSE cur
    /\ pc' = "done"
    /\ UNCHANGED <<side, diff, mdiff, pi>>
    /\ UNCHANGED lexVars
    /\ UNCHANGED foldVars
    /\ UNCHANGED cliVars

---------------------------------------------------------------------------
(* The inputs: what difflib._mdiff and the lexer hand to the formatter.    *)
(* Both are libraries outside the repository; the sets below hold outputs  *)
(* they produce for small texts.                                           *)

MaxPairs == 2       \* diff entries of a file, alignment inputs
ShortLens == {0, 1} \* lengths of the lines, alignment inputs
MaxCuts == 1        \* token boundaries inside a text, alignment inputs
MaxLineLen == 3     \* characters of the line, splitting inputs

\* The characters of lines: a line takes its characters from here in turn,
\* so the characters of a line differ from each other and lines differ.
\* "<" and "&" are characters html.escape rewrites.
Alphabet == <<"a", "<", "b", "&">>

LineChars(k, n) == [i \in 1..n |-> Alphabet[((k + i - 2) % Len(Alphabet)) + 1]]

\* Which characters of a line lie in a word change: 0 outside, 1 the first
\* character of a change region, 2 a further character of the region
TagSeqs(n) ==
    {t \in [1..n -> {0, 1, 2}] :
        \A i \in 1..n : t[i] = 2 => (i > 1 /\ t[i - 1] # 0)}

\* difflib's marked text of a line with change regions: "\0^" before the
\* region, "\1" after it
RECURSIVE MarkedFrom(_, _, _)
MarkedFrom(chars, tags, i) ==
    IF i > Len(chars)
    THEN IF Len(chars) > 0 /\ tags[Len(chars)] # 0 THEN <<SOH>> ELSE <<>>
    ELSE (IF i > 1 /\ tags[i - 1] # 0 /\ tags[i] # 2 THEN <<SOH>> ELSE <<>>)
         \o (IF tags[i] = 1 THEN <<NUL, "^">> ELSE <<>>)
         \o <<chars[i]>>
         \o MarkedFrom(chars, tags, i + 1)

\* difflib's marked text of a line added or deleted as a whole; an empty
\* line is shown as one blank
FullMarked(chars, key) ==
    <<NUL, key>> \o (IF chars = <<>> THEN <<" ">> ELSE chars) \o <<SOH>>

\* the line that difflib marked as a whole: the text between the markers, the
\* empty line for the blank it is shown as
StripBlank(marked) ==
    LET inner == SubSeq(marked, 3, Len(marked) - 1)
    IN  IF inner = <<" ">> THEN <<>> ELSE inner

KeyOf(s) == IF s = "left" THEN "-" ELSE "+"
Other(s) == IF s = "left" THEN "right" ELSE "left"

\* One diff entry as the side under format sees it: an unchanged line
\* ("eq"), a changed line present on both sides ("chg"), a line of this
\* side only ("ours"), a line of the other side only ("theirs").  tags gives
\* the length of the line and its change regions.
Variants(lens) ==
    [kind : {"eq", "ours"}, tags : {[i \in 1..n |-> 0] : n \in lens}]
    \cup [kind : {"chg"}, tags : UNION {TagSeqs(n) : n \in lens}]
    \cup [kind : {"theirs"}, tags : {<<>>}]

OursNo(shape, j) == Cardinality({i \in 1..j : shape[i].kind # "theirs"})
TheirsNo(shape, j) == Cardinality({i \in 1..j : shape[i].kind # "ours"})

\* (lineno, text) of difflib for the side under format
OursLine(s, shape, j) ==
    LET v == shape[j]
        chars == LineChars(OursNo(shape, j), Len(v.tags))
    IN  CASE v.kind = "theirs" -> <<0, <<NL>>>>
          [] v.kind = "eq" -> <<OursNo(shape, j), chars>>
          [] v.kind = "ours" -> <<OursNo(shape, j), FullMarked(chars, KeyOf(s))>>
          [] v.kind = "chg" ->
                <<OursNo(shape, j),
                  IF chars = <<>> THEN FullMarked(chars, KeyOf(s))
                  ELSE MarkedFrom(chars, v.tags, 1)>>

\* (lineno, text) of difflib for the other side; format never reads the text
TheirsLine(s, shape, j) ==
    LET v == shape[j]
    IN  CASE v.kind = "ours" -> <<0, <<NL>>>>
          [] v.kind = "eq" ->
                <<TheirsNo(shape, j), LineChars(OursNo(shape, j), Len(v.tags))>>
          [] OTHER -> <<TheirsNo(shape, j), FullMarked(<<"z">>, KeyOf(Other(s)))>>

\* list(difflib._mdiff(old.splitlines(), new.splitlines()))
MDiff(s, shape) ==
    [j \in 1..Len(shape) |->
        IF s = "left"
        THEN [left |-> OursLine(s, shape, j), right |-> TheirsLine(s, shape, j),
              change |-> shape[j].kind # "eq"]
        ELSE [left |-> TheirsLine(s, shape, j), right |-> OursLine(s, shape, j),
              change |-> shape[j].kind # "eq"]]

\* the lines of the side under format (text.splitlines())
SideLines(shape) ==
    LET own == SelectIdx(shape, LAMBDA j : shape[j].kind # "theirs", 1)
    IN  [k \in 1..Len(own) |-> LineChars(k, Len(own[k].tags))]

\* The text the lexer tokenizes: the lines, each but the last ended by a
\* newline, or by a form feed after line number ff; the last is ended by a
\* newline when final_nl (the text ends with a newline, or the lexer's
\* ensurenl option adds it)
LexerText(ls, ff, final_nl) ==
    Flatten([k \in 1..Len(ls) |->
                ls[k] \o (IF k = Len(ls) THEN <<>>
                          ELSE IF k = ff THEN <<FF>> ELSE <<NL>>)])
    \o (IF final_nl THEN <<NL>> ELSE <<>>)

\* the line ends of a text that may be form feeds; 0 is none
FormFeedChoices(ls) == 0..(IF Len(ls) > 0 THEN Len(ls) - 1 ELSE 0)

\* A text without a final newline has these lines only when its last line
\* is not empty
FinalNlChoices(ls) ==
    IF ls = <<>> \/ ls[Len(ls)] # <<>> THEN BOOLEAN ELSE {TRUE}

LexTypes == <<"Token.Keyword", "Token.Text", "Token.Name.Custom", "Token.Custom">>

\* the token stream that cuts text after the positions in cuts; the token
\* types are taken from LexTypes in turn
Tokenize(text, cuts) ==
    LET ends == SelectIdx([i \in 1..Len(text) |-> i],
                          LAMBDA i : i \in cuts \/ i = Len(text), 1)
    IN  [k \in 1..Len(ends) |->
            [ttype |-> LexTypes[((k - 1) % Len(LexTypes)) + 1],
             value |-> SubSeq(text, IF k = 1 THEN 1 ELSE ends[k - 1] + 1, ends[k])]]

CutSets(text, maxcuts) ==
    {c \in SUBSET (1..(Len(text) - 1)) : Cardinality(c) <= maxcuts}

\* format is entered with the pieces of iter_token_lines ready to be pulled
FormatEntry(s, shape, toks) ==
    /\ side = s
    /\ mdiff = MDiff(s, shape)
    /\ diff = SelfDiff(s, MDiff(s, shape))
    /\ tokensource = toks
    /\ ti = Len(toks)
    /\ yielded = IterTokenLines(toks).pieces
    /\ lineno = IterTokenLines(toks).lineno
    /\ di = 0 /\ cur = 0 /\ pi = 0
    /\ lines = <<>>
    /\ pc = "format"
    /\ fmt_l = <<>> /\ fmt_r = <<>>
    /\ context_len = 0 /\ fold_min = 0 /\ gi = 0 /\ out = <<>>
    /\ CliIdle

\* alignment inputs: several short lines, few tokens
InitAlign ==
    \E s \in Sides, shape \in SeqsUpTo(Variants(ShortLens), MaxPairs) :
      \E final_nl \in FinalNlChoices(SideLines(shape)),
         ff \in FormFeedChoices(SideLines(shape)) :
        \E cuts \in CutSets(LexerText(SideLines(shape), ff, final_nl), MaxCuts) :
          FormatEntry(s, shape,
                      Tokenize(LexerText(SideLines(shape), ff, final_nl), cuts))

\* splitting inputs: one longer line present on both sides, with every
\* choice of change regions and every token stream
InitSplit ==
    \E s \in Sides, v \in Variants(0..MaxLineLen) :
      /\ v.kind \in {"eq", "chg"}
      /\ \E cuts \in SUBSET (1..Len(v.tags)) :
           FormatEntry(s, <<v>>,
                       Tokenize(LexerText(SideLines(<<v>>), 0, TRUE), cuts))

MaxRawLen == 3     \* characters and markers of the line, marker-byte inputs

\* what a line of text holding marker bytes is made of: a plain character,
\* the two characters "\0+", the character "\1"
RawUnits == {<<"a">>, <<NUL, "+">>, <<SOH>>}

\* difflib hands an unchanged line on as it is, marker bytes included
RawMDiff(chars) ==
    <<[left |-> <<1, chars>>, right |-> <<1, chars>>, change |-> FALSE]>>

\* marker-byte inputs: one unchanged line whose text holds the bytes that
\* difflib uses as markers
InitRaw ==
    \E s \in Sides, units \in SeqsUpTo(RawUnits, MaxRawLen) :
      /\ \E k \in 1..Len(units) : units[k] # <<"a">>
      /\ \E cuts \in CutSets(Flatten(units) \o <<NL>>, MaxCuts) :
           /\ side = s
           /\ mdiff = RawMDiff(Flatten(units))
           /\ diff = SelfDiff(s, RawMDiff(Flatten(units)))
           /\ tokensource = Tokenize(Flatten(units) \o <<NL>>, cuts)
           /\ ti = Len(tokensource)
           /\ yielded = IterTokenLines(tokensource).pieces
           /\ lineno = IterTokenLines(tokensource).lineno
           /\ di = 0 /\ cur = 0 /\ pi = 0
           /\ lines = <<>>
           /\ pc = "format"
           /\ fmt_l = <<>> /\ fmt_r = <<>>
           /\ context_len = 0 /\ fold_min = 0 /\ gi = 0 /\ out = <<>>
           /\ CliIdle

InitFmt == InitAlign \/ InitSplit \/ InitRaw

NextFmt == FormatLine \/ FormatTail

SpecFmt == InitFmt /\ [][NextFmt]_vars

---------------------------------------------------------------------------
(* iter_token_lines on its own: any token stream *)

MaxToks == 3      \* tokens of a stream
MaxTokLen == 2    \* characters of a token

TokenValues == SeqsUpTo({"a", NL}, MaxTokLen)

InitTok ==
    /\ \E vals \in SeqsUpTo(TokenValues, MaxToks) :
         tokensource = [k \in 1..Len(vals) |->
                           [ttype |-> LexTypes[((k - 1) % Len(LexTypes)) + 1],
                            value |-> vals[k]]]
    /\ ti = 0 /\ lineno = 1 /\ yielded = <<>>
    /\ pc = "lex"
    /\ side = "left" /\ mdiff = <<>> /\ diff = <<>>
    /\ di = 0 /\ cur = 0 /\ pi = 0 /\ lines = <<>>
    /\ fmt_l = <<>> /\ fmt_r = <<>>
    /\ context_len = 0 /\ fold_min = 0 /\ gi = 0 /\ out = <<>>
    /\ CliIdle

NextTok == IterToken \/ IterStop

SpecTok == InitTok /\ [][NextTok]_vars

---------------------------------------------------------------------------
(* html_diff_content: the fold grouping *)

FoldOpen(n) == [kind |-> "open", n |-> n]
FoldClose == [kind |-> "close"]

\* faulty variant, for sensitivity: the fold is closed one pair early
CloseIndexEarly(group_len, ctx) == group_len - ctx - 2

\* the index i after which the fold is closed
CloseIndex(group_len, ctx) == group_len - ctx - 1

\* faulty variant, for sensitivity: a run as long as the threshold is folded as well
DoCollapseAtThreshold(change, group_len, ctx, fmin) ==
    ~change /\ group_len >= 2 * ctx + fmin

\* do_collapse
DoCollapse(change, group_len, ctx, fmin) ==
    ~change /\ group_len > 2 * ctx + fmin

\* out.append(line): the line's markup as an element of out
OutLine(rec) == [kind |-> "line", line |-> rec]

\* faulty variant, for sensitivity: the left line is appended twice
PairOutLeftTwice(pair, i, group_len, do_collapse, ctx) ==
    (IF do_collapse /\ i = ctx
     THEN <<FoldOpen(group_len - 2 * ctx)>> ELSE <<>>)
    \o <<OutLine(pair[1]), OutLine(pair[1])>>
    \o (IF do_collapse /\ i = CloseIndex(group_len, ctx)
        THEN <<FoldClose>> ELSE <<>>)

\* the body of the inner for loop: what pair number i of a group appends
PairOut(pair, i, group_len, do_collapse, ctx) ==
    (IF do_collapse /\ i = ctx
     THEN <<FoldOpen(group_len - 2 * ctx)>> ELSE <<>>)
    \o <<OutLine(pair[1]), OutLine(pair[2])>>
    \o (IF do_collapse /\ i = CloseIndex(group_len, ctx)
        THEN <<FoldClose>> ELSE <<>>)

\* the inner for loop: what one group appends to out
GroupOut(group, do_collapse, ctx) ==
    Flatten([k \in 1..Len(group) |->
                PairOut(group[k], k - 1, Len(group), do_collapse, ctx)])

Zipped == Zip(fmt_l, fmt_r)

\* groupby on the change flag of the left record
RunLen(z, from) ==
    Cardinality({k \in (from + 1)..Len(z) :
                    \A j \in (from + 1)..k : z[j][1].change = z[from + 1][1].change})

\* one iteration of the outer for loop: the next group of pairs
FoldGroup ==
    /\ pc = "fold"
    /\ gi < Len(Zipped)
    /\ LET glen == RunLen(Zipped, gi)
           group == SubSeq(Zipped, gi + 1, gi + glen)
           change == Zipped[gi + 1][1].change
       IN  /\ out' = out \o GroupOut(group,
                                    DoCollapse(change, glen, context_len, fold_min),
                                    context_len)
           /\ gi' = gi + glen
    /\ UNCHANGED <<fmt_l, fmt_r, context_len, fold_min, pc>>
    /\ UNCHANGED lexVars
    /\ UNCHANGED fmtVars
    /\ UNCHANGED cliVars

\* the groups are used up: out is joined and returned
FoldReturn ==
    /\ pc = "fold"
    /\ gi = Len(Zipped)
    /\ pc' = "folded"
    /\ UNCHANGED foldVars
    /\ UNCHANGED lexVars
    /\ UNCHANGED fmtVars
    /\ UNCHANGED cliVars

MaxLines == 10     \* line pairs of a file, fold inputs
MaxCtx == 2        \* context_len, fold inputs
MaxFoldMin == 3    \* fold_min, fold inputs

\* The record of pair number i on side s as the fold grouping sees it: the
\* change flag and the line's markup, which it passes on unread
FoldRecord(s, i, change) == [change |-> change, side |-> s, src |-> i]

InitFold ==
    /\ \E flags \in SeqsUpTo(BOOLEAN, MaxLines) :
         /\ fmt_l = [i \in 1..Len(flags) |-> FoldRecord("left", i, flags[i])]
         /\ fmt_r = [i \in 1..Len(flags) |-> FoldRecord("right", i, flags[i])]
    /\ context_len \in 0..MaxCtx
    /\ fold_min \in 0..MaxFoldMin
    /\ gi = 0 /\ out = <<>>
    /\ pc = "fold"
    /\ tokensource = <<>> /\ ti = 0 /\ lineno = 1 /\ yielded = <<>>
    /\ side = "left" /\ mdiff = <<>> /\ diff = <<>>
    /\ di = 0 /\ cur = 0 /\ pi = 0 /\ lines = <<>>
    /\ CliIdle

NextFold == FoldGroup \/ FoldReturn

SpecFold == InitFold /\ [][NextFold]_vars

---------------------------------------------------------------------------
(* html_diff_content as a whole: the old text is formatted as the left     *)
(* side, the new text as the right side, both with the same diff, and the  *)
(* zipped records are grouped                                              *)

\* One LinePair of a file: a line that is the same on both sides ("eq"), a
\* line replaced by another ("chg"), a line of the old text only ("left"), a
\* line of the new text only ("right"); len is the length of its lines
PairShapes(lens) ==
    [kind : {"eq", "left", "right"}, len : lens]
    \cup [kind : {"chg"}, len : lens \ {0}]

\* side s has a line in a pair of this kind
HasSide(s, kind) == kind \in {"eq", "chg", s}

\* the characters of the line of side s in pair number j: the same on both
\* sides of an unchanged pair, not the same on the sides of a replaced one
PairChars(s, shape, j) ==
    LineChars(IF shape[j].kind = "chg" /\ s = "right" THEN j + 1 ELSE j,
              shape[j].len)

\* the number of the line of side s in pair number j
PairLineNo(s, shape, j) ==
    Cardinality({i \in 1..j : HasSide(s, shape[i].kind)})

\* (lineno, text) of difflib for side s of pair number j; difflib marks a
\* replaced line, like a deleted or an added one, as a whole
PairLine(s, shape, j) ==
    CASE ~HasSide(s, shape[j].kind) -> <<0, <<NL>>>>
      [] shape[j].kind = "eq" ->
            <<PairLineNo(s, shape, j), PairChars(s, shape, j)>>
      [] OTHER ->
            <<PairLineNo(s, shape, j),
              FullMarked(PairChars(s, shape, j), KeyOf(s))>>

\* list(difflib._mdiff(old.splitlines(), new.splitlines()))
PairMDiff(shape) ==
    [j \in 1..Len(shape) |->
        [left |-> PairLine("left", shape, j),
         right |-> PairLine("right", shape, j),
         change |-> shape[j].kind # "eq"]]

\* the lines of side s, as they stand in the diff md
LinesOfSide(s, md) ==
    LET own == SelectIdx(md, LAMBDA j : md[j][s][1] # 0, 1)
    IN  [k \in 1..Len(own) |->
            IF own[k].change THEN StripBlank(own[k][s][2]) ELSE own[k][s][2]]

\* the token streams the lexer can make of the text of side s: the text in
\* one token, no token for an empty text that the lexer adds no newline to
TokenStreams(s, md) ==
    {Tokenize(LexerText(LinesOfSide(s, md), ff, final_nl), {}) :
        ff \in FormFeedChoices(LinesOfSide(s, md)),
        final_nl \in FinalNlChoices(LinesOfSide(s, md))}

\* the state at the call of format for side s with the token stream toks
FormatCall(s, toks) ==
    /\ side' = s
    /\ diff' = SelfDiff(s, mdiff)
    /\ tokensource' = toks
    /\ ti' = Len(toks)
    /\ yielded' = IterTokenLines(toks).pieces
    /\ lineno' = IterTokenLines(toks).lineno
    /\ di' = 0 /\ cur' = 0 /\ pi' = 0
    /\ lines' = <<>>
    /\ pc' = "format"

\* fmt_l is done; fmt_r is made and pygments.highlight(new, lexer, fmt_r)
\* calls its format
HighlightNew ==
    /\ pc = "done"
    /\ side = "left"
    /\ fmt_l' = lines
    /\ \E toks \in TokenStreams("right", mdiff) : FormatCall("right", toks)
    /\ UNCHANGED <<mdiff, fmt_r, context_len, fold_min, gi, out>>
    /\ UNCHANGED cliVars

\* fmt_r is done; the records of the two sides are zipped for the grouping
ZipLines ==
    /\ pc = "done"
    /\ side = "right"
    /\ fmt_r' = lines
    /\ gi' = 0 /\ out' = <<>>
    /\ pc' = "fold"
    /\ UNCHANGED <<fmt_l, context_len, fold_min>>
    /\ UNCHANGED <<side, diff, di, cur, pi, lines, mdiff>>
    /\ UNCHANGED lexVars
    /\ UNCHANGED cliVars

InitPipe ==
    /\ \E shape \in SeqsUpTo(PairShapes(ShortLens), MaxPairs) :
         /\ mdiff = PairMDiff(shape)
         /\ diff = SelfDiff("left", PairMDiff(shape))
         /\ tokensource \in TokenStreams("left", PairMDiff(shape))
    /\ side = "left"
    /\ ti = Len(tokensource)
    /\ yielded = IterTokenLines(tokensource).pieces
    /\ lineno = IterTokenLines(tokensource).lineno
    /\ di = 0 /\ cur = 0 /\ pi = 0
    /\ lines = <<>>
    /\ pc = "format"
    /\ fmt_l = <<>> /\ fmt_r = <<>>
    /\ context_len \in {0, 1}
    /\ fold_min \in {0, 1}
    /\ gi = 0 /\ out = <<>>
    /\ CliIdle

NextPipe ==
    FormatLine \/ FormatTail \/ HighlightNew \/ ZipLines \/ FoldGroup \/ FoldReturn

SpecPipe == InitPipe /\ [][NextPipe]_vars

---------------------------------------------------------------------------
(* Claims about the fold grouping, checked under SpecFold *)

LeftFlag(i) == fmt_l[i].change

\* pair a is the first of a maximal run of pairs with the same changed flag
IsRunStart(a) == a = 1 \/ LeftFlag(a - 1) # LeftFlag(a)

\* the last pair of the run that starts at a
RunEnd(a) ==
    CHOOSE b \in a..Len(fmt_l) :
        /\ \A i \in a..b : LeftFlag(i) = LeftFlag(a)
        /\ b = Len(fmt_l) \/ LeftFlag(b + 1) # LeftFlag(b)

\* the lines of pairs a..b, left before right
PairLines(a, b) ==
    Flatten([i \in 1..(b - a + 1) |->
                <<OutLine(fmt_l[a + i - 1]), OutLine(fmt_r[a + i - 1])>>])

\* what the claim lets out hold for the run that starts at a
RunOut(a) ==
    LET b == RunEnd(a)
        L == b - a + 1
    IN  IF ~LeftFlag(a) /\ L > 2 * context_len + fold_min
        THEN PairLines(a, a + context_len - 1)
             \o <<FoldOpen(L - 2 * context_len)>>
             \o PairLines(a + context_len, b - context_len)
             \o <<FoldClose>>
             \o PairLines(b - context_len + 1, b)
        ELSE PairLines(a, b)

\* C1: a maximal run of pairs with the same changed flag gets a fold if and
\* only if it is unchanged and its length L exceeds 2*context_len + fold_min;
\* then the first context_len and the last context_len pairs are outside the
\* fold and the middle L - 2*context_len pairs are inside it, in one fold.
\* So out is, run after run of the pairs grouped so far, the lines of the
\* run with this one fold or with none.
C1_FoldThreshold ==
    LET starts == SelectIdx([i \in 1..gi |-> i], IsRunStart, 1)
    IN  out = Flatten([k \in 1..Len(starts) |-> RunOut(starts[k])])

\* context_len = 2, fold_min = 3 and an unchanged run of 10 pairs: the fold
\* holds 6 pairs, with 2 pairs before it and 2 after it
C1_Witness ==
    /\ pc = "folded"
    /\ context_len = 2 /\ fold_min = 3
    /\ Len(fmt_l) = 10
    /\ \A i \in 1..10 : ~LeftFlag(i)
    /\ out[5] = FoldOpen(6)
    /\ out[18] = FoldClose
    /\ Len(out) = 22

\* the lines of out, without the fold markers
OutLines == SelectSeq(out, LAMBDA x : x.kind = "line")

\* C2: out holds every pair grouped so far exactly once, the left line
\* followed by its right line, in the order of the pairs; at the return all
\* zipped pairs are in out.
C2_FoldCoverage ==
    /\ OutLines = Flatten([i \in 1..gi |-> <<OutLine(fmt_l[i]), OutLine(fmt_r[i])>>])
    /\ pc = "folded" => gi = Len(Zip(fmt_l, fmt_r))

\* a file with a changed pair between two unchanged runs, one of them folded
C2_Witness ==
    /\ pc = "folded"
    /\ \E i \in 1..Len(fmt_l) : LeftFlag(i)
    /\ \E k \in 1..Len(out) : out[k].kind = "open"
    /\ Len(OutLines) = 2 * Len(fmt_l)
    /\ Len(fmt_l) >= 5

\* the number of fold markers of kind k among the first n elements of out
MarksUpTo(k, n) == Cardinality({i \in 1..n : out[i].kind = k})

\* the folds open after the first n elements of out
FoldDepth(n) == MarksUpTo("open", n) - MarksUpTo("close", n)

\* the close marker that ends the fold opened at position a of out
CloseOf(a) ==
    CHOOSE b \in (a + 1)..Len(out) :
        out[b].kind = "close" /\ \A i \in (a + 1)..(b - 1) : out[i].kind # "close"

\* C22: in out, a fold-open marker comes only while no fold is open, a
\* fold-close marker only while one is open, and after every group no fold
\* is open; between an open marker and its close marker there is at least
\* one pair, and only unchanged lines.
C22_FoldMarkers ==
    /\ \A n \in 1..Len(out) :
           /\ out[n].kind = "open" => FoldDepth(n - 1) = 0
           /\ out[n].kind = "close" => FoldDepth(n - 1) = 1
    /\ FoldDepth(Len(out)) = 0
    /\ \A a \in 1..Len(out) :
           out[a].kind = "open" =>
               /\ CloseOf(a) - a - 1 >= 2
               /\ out[a].n * 2 = CloseOf(a) - a - 1
               /\ \A i \in (a + 1)..(CloseOf(a) - 1) :
                      out[i].kind = "line" /\ ~out[i].line.change

\* context_len = 0 and fold_min = 0: two folds of one pair each, with a
\* changed pair between them
C22_Witness ==
    /\ pc = "folded"
    /\ context_len = 0 /\ fold_min = 0
    /\ Len(fmt_l) = 3
    /\ ~LeftFlag(1) /\ LeftFlag(2) /\ ~LeftFlag(3)
    /\ MarksUpTo("open", Len(out)) = 2
    /\ MarksUpTo("close", Len(out)) = 2

---------------------------------------------------------------------------
(* Claims about RecordFormatter.format, checked under SpecFmt *)

\* the records of lines that are rendered lines, not placeholders
RenderedLines == SelectSeq(lines, LAMBDA rec : rec.kind = "line")

\* the text a rendered line shows: the texts of its spans, in order
ShownText(rec) ==
    HtmlUnescape(Flatten([k \in 1..Len(rec.spans) |-> rec.spans[k].text]))

\* the plain text of token line n: its token pieces, in order
PlainLine(n) ==
    LET own == SelectSeq(yielded, LAMBDA piece : piece.lineno = n)
    IN  Flatten([k \in 1..Len(own) |-> own[k].value])

\* the LinePair of a rendered line: the diff entry with its line number
HasLinePair(rec) == \E j \in 1..Len(diff) : diff[j].ours[1] = rec.lineno
LinePairOf(rec) == diff[CHOOSE j \in 1..Len(diff) : diff[j].ours[1] = rec.lineno]

\* the text the lexer tokenized
TokenText == Flatten([k \in 1..Len(tokensource) |-> tokensource[k].value])

\* C3: format produces exactly one record for every LinePair, so a side has
\* as many records as the diff has LinePairs, and record number i comes from
\* LinePair number i.
C3_Pairing ==
    pc = "done" =>
        /\ Len(lines) = Len(diff)
        /\ \A i \in 1..Len(lines) : i <= Len(diff) /\ lines[i].src = i

\* C4: a rendered line has no change class when its LinePair is unchanged,
\* the insert class when it is changed and the other side has no line
\* number, the change class when it is changed and both sides have one.
C4_LineClass ==
    \A i \in 1..Len(RenderedLines) :
        LET rec == RenderedLines[i]
        IN  HasLinePair(rec) =>
                LET e == LinePairOf(rec)
                IN  /\ ~e.change => rec.cls = ""
                    /\ (e.change /\ e.theirs[1] = 0) => rec.cls = " wsd-insert"
                    /\ (e.change /\ e.ours[1] # 0 /\ e.theirs[1] # 0)
                           => rec.cls = " wsd-change"

\* an unchanged line 1 and a line 2 changed on both sides
C4_Witness ==
    /\ pc = "done"
    /\ Len(RenderedLines) = 2
    /\ ~diff[1].change /\ RenderedLines[1].cls = ""
    /\ diff[2].change /\ diff[2].theirs[1] = 2
    /\ RenderedLines[2].cls = " wsd-change"

\* the texts of all rendered lines of the side, one after the other
SideShown ==
    Flatten([i \in 1..Len(RenderedLines) |-> ShownText(RenderedLines[i])])

\* C5 as claimed: the span texts of all rendered lines of a side, in order,
\* are the side's full input text (the lexer's text, or that text without
\* the final newline when the lexer added it).
C5_FullText ==
    pc = "done" =>
        \/ SideShown = TokenText
        \/ /\ TokenText # <<>>
           /\ TokenText[Len(TokenText)] = NL
           /\ SideShown = SubSeq(TokenText, 1, Len(TokenText) - 1)

\* C5 as amended: the span texts of all rendered lines of a side, in order,
\* are the text the lexer tokenized without its newline characters.
C5_TextWithoutNewlines ==
    pc \in {"done", "error"} =>
        SideShown = SelectSeq(TokenText, LAMBDA c : c # NL)

\* two lines of text in one token
C5_Witness ==
    /\ pc = "done"
    /\ Len(tokensource) = 1
    /\ Len(RenderedLines) = 2
    /\ ShownText(RenderedLines[1]) # <<>>
    /\ ShownText(RenderedLines[2]) # <<>>
    /\ ShownText(RenderedLines[1]) # ShownText(RenderedLines[2])

\* C6: the span texts of a rendered line, in order, are the line's plain
\* text: the token pieces attributed to the line.
C6_LineText ==
    \A i \in 1..Len(RenderedLines) :
        ShownText(RenderedLines[i]) = PlainLine(RenderedLines[i].lineno)

\* a line of one token with markers at offset 0, inside the token, twice at
\* the same offset and at the end of the line
C6_Witness ==
    /\ pc = "done"
    /\ Len(tokensource) = 1
    /\ Len(RenderedLines) = 1
    /\ LET ms == RenderedLines[1].markers
       IN  /\ Len(ms) = 6
           /\ ms[1].pos = 0
           /\ ms[2].pos = 1 /\ ms[3].pos = 1
           /\ ms[6].pos = Len(PlainLine(1))
    /\ Len(PlainLine(1)) = 3

IsStartMarker(m) == m.sep \in {<<NUL, "+">>, <<NUL, "-">>, <<NUL, "^">>}
IsEndMarker(m) == m.sep = <<SOH>>

\* offset p lies at or after a start marker and before the next End marker
InWordChange(ms, p) ==
    \E i \in 1..Len(ms) :
        /\ IsStartMarker(ms[i])
        /\ ms[i].pos <= p
        /\ \A j \in (i + 1)..Len(ms) :
               (IsEndMarker(ms[j])
                /\ \A k \in (i + 1)..(j - 1) : ~IsEndMarker(ms[k]))
                   => p < ms[j].pos

\* for every character a rendered line shows, whether its span carries the
\* word-change class
ShownInWordChange(rec) ==
    Flatten([k \in 1..Len(rec.spans) |->
                [c \in 1..Len(rec.spans[k].text) |->
                    rec.spans[k].diff_class = WordChange]])

\* C7: on a rendered line whose other side has a line, the character at
\* offset p is in a span with the word-change class if and only if p lies at
\* or after a start marker and before the next End marker; every line
\* starts with the highlight off.
C7_WordChange ==
    \A i \in 1..Len(RenderedLines) :
        LET rec == RenderedLines[i]
        IN  /\ rec.spans[1].diff_class = ""
            /\ (HasLinePair(rec) /\ LinePairOf(rec).theirs[1] # 0) =>
                   \A p \in 0..(Len(ShownInWordChange(rec)) - 1) :
                       ShownInWordChange(rec)[p + 1]
                           <=> InWordChange(rec.markers, p)

\* a line of three characters with a start marker at offset 1 and End at
\* offset 2: the middle character alone is highlighted
C7_Witness ==
    /\ pc = "done"
    /\ Len(RenderedLines) = 1
    /\ RenderedLines[1].markers
           = <<Marker(1, <<NUL, "^">>), Marker(2, <<SOH>>)>>
    /\ ShownInWordChange(RenderedLines[1]) = <<FALSE, TRUE, FALSE>>

\* C8: every span cut from a token, before or after a marker, carries the
\* class string get_token_class returns for the token's type.
C8_SplitClass ==
    \A i \in 1..Len(RenderedLines) :
        \A k \in 1..Len(RenderedLines[i].spans) :
            RenderedLines[i].spans[k].cls
                = get_token_class(RenderedLines[i].spans[k].ttype)

\* C9: when the other side of a line's LinePair has no line number, the
\* marker list of the line is empty, though the marked text holds marker
\* bytes, and no span of the line carries the word-change class.
C9_WholeLine ==
    \A i \in 1..Len(RenderedLines) :
        LET rec == RenderedLines[i]
        IN  (HasLinePair(rec) /\ LinePairOf(rec).theirs[1] = 0) =>
                /\ rec.markers = <<>>
                /\ \A k \in 1..Len(rec.spans) : rec.spans[k].diff_class = ""

\* a line of this side only, with text, whose marked text starts "\0-" or "\0+"
C9_Witness ==
    \E i \in 1..Len(RenderedLines) :
        LET rec == RenderedLines[i]
        IN  /\ HasLinePair(rec)
            /\ LinePairOf(rec).theirs[1] = 0
            /\ LinePairOf(rec).ours[2][1] = NUL
            /\ ShownText(rec) # <<>>

---------------------------------------------------------------------------
(* Claims about iter_token_lines, checked under SpecTok *)

\* the text of the tokens consumed before token number i
TextBefore(i) == Flatten([k \in 1..(i - 1) |-> tokensource[k].value])

\* the pieces the claim lets token number i yield: the parts of its text
\* between newlines, but not an empty part after the last newline, each of
\* the token's type and on line 1 + the newlines before it
ClaimedPieces(i) ==
    LET segs == SplitOn(tokensource[i].value, NL)
        first == 1 + Count(TextBefore(i), NL)
        all == [j \in 1..Len(segs) |->
                   Piece(first + j - 1, tokensource[i].ttype, segs[j])]
    IN  SelectIdx(all, LAMBDA j : j < Len(segs) \/ segs[j] # <<>>, 1)

\* C10: every piece is free of newlines, has the type of its token and the
\* line number 1 + the newlines of all token text before it; line numbers
\* do not decrease; the pieces of line k, in order, are line k of the token
\* text split at newlines.
C10_TokenLines ==
    /\ yielded = Flatten([i \in 1..ti |-> ClaimedPieces(i)])
    /\ \A k \in 1..Len(yielded) : \A c \in 1..Len(yielded[k].value) :
           yielded[k].value[c] # NL
    /\ \A k \in 1..(Len(yielded) - 1) : yielded[k].lineno <= yielded[k + 1].lineno
    /\ LET text_lines == SplitOn(TextBefore(ti + 1), NL)
       IN  \A n \in 1..Len(text_lines) : PlainLine(n) = text_lines[n]

\* "a", "\na", "a\n": line 2 is made of pieces of two tokens
C10_Witness ==
    /\ pc = "lexed"
    /\ Len(tokensource) = 3
    /\ tokensource[2].value = <<NL, "a">>
    /\ Len(yielded) = 5
    /\ yielded[3].lineno = 2 /\ yielded[4].lineno = 2
    /\ yielded[3].ttype # yielded[4].ttype
    /\ yielded[5].value = <<>>

---------------------------------------------------------------------------
(* Claims about the alignment of token lines and diff entries, checked     *)
(* under SpecFmt                                                            *)

\* the line numbers of the token lines of the side
TokenLineNos == {yielded[k].lineno : k \in 1..Len(yielded)}

\* the line numbers the diff has for the side
DiffLineNos == {diff[j].ours[1] : j \in 1..Len(diff)} \ {0}

\* the token stream does not have the lines the diff has for the side: a
\* token line without a diff entry, or a diff line after the last token line
LexerMismatch == TokenLineNos # DiffLineNos

\* C11: when the token stream of a side does not match the side's text, so
\* that a token line number has no diff entry or the diff has lines of the
\* side beyond the last token line, format stops with an error and does not
\* return rendered lines.
C11_FailFast == LexerMismatch => pc # "done"

\* C19: the diff entry a line is rendered with (its change flag, marked
\* text and other line number) has the line's own number on this side, and
\* the line numbers shown on a side are 1, 2, 3, ... without gap or repeat.
C19_Aligned ==
    /\ \A i \in 1..Len(RenderedLines) :
           diff[RenderedLines[i].src].ours[1] = RenderedLines[i].lineno
    /\ \A i \in 1..Len(RenderedLines) : RenderedLines[i].lineno = i

\* the placeholders among the records
Placeholders == SelectSeq(lines, LAMBDA rec : rec.kind = "empty")

\* C20: a placeholder stands for a diff entry that is changed, has no line
\* on this side and has a line on the other side; this holds for the entries
\* the alignment loop skips and for those left over after the last token
\* line.
C20_PlaceholderAbsent ==
    \A i \in 1..Len(Placeholders) :
        LET e == diff[Placeholders[i].src]
        IN  /\ e.ours[1] = 0
            /\ e.change
            /\ e.theirs[1] # 0

---------------------------------------------------------------------------
(* Claims about markers and spans, checked under SpecFmt *)

\* the markers ms[i..] are well nested when read with a change region open
\* or not: a start marker opens a region only when none is open, an End
\* closes one only when one is open, and none is open at the end of the line
RECURSIVE NestedFrom(_, _, _)
NestedFrom(ms, i, open) ==
    IF i > Len(ms) THEN ~open
    ELSE IF IsStartMarker(ms[i]) THEN ~open /\ NestedFrom(ms, i + 1, TRUE)
    ELSE IF IsEndMarker(ms[i]) THEN open /\ NestedFrom(ms, i + 1, FALSE)
    ELSE NestedFrom(ms, i + 1, open)

WellNested(ms) == NestedFrom(ms, 1, FALSE)

\* C12: a line whose marker sequence is not well nested is reported as an
\* error and not rendered: every line that format renders has a well-nested
\* marker sequence.
C12_MalformedReported ==
    \A i \in 1..Len(RenderedLines) : WellNested(RenderedLines[i].markers)

\* the two texts are the same: every LinePair is unchanged
IdenticalTexts == \A j \in 1..Len(mdiff) : ~mdiff[j].change

\* C13: when a text is diffed against an identical text, no record of a
\* side is a placeholder, no line has the change or the insert class, and
\* every record is unchanged, so that all pairs form one unchanged run.
C13_Idempotence ==
    (pc = "done" /\ IdenticalTexts) =>
        \A i \in 1..Len(lines) :
            /\ lines[i].kind = "line"
            /\ lines[i].cls = ""
            /\ ~lines[i].change

---------------------------------------------------------------------------
(* Claims about get_token_class, checked under SpecFmt, whose lexer hands  *)
(* out token types with and without a short name                           *)

\* the chain of a type: the type itself, its parent, ... up to the root
RECURSIVE TypeChain(_)
TypeChain(ttype) ==
    IF ttype = "Token" THEN <<ttype>> ELSE <<ttype>> \o TypeChain(Parent(ttype))

\* the class the claim gives a type: that of the first type on its chain
\* with a non-empty short name, the generic name 'n' when there is none
NearestClass(ttype) ==
    LET chain == TypeChain(ttype)
        named == {i \in 1..Len(chain) : StandardType(chain[i]) # ""}
    IN  IF named = {} THEN <<"n">>
        ELSE LET first == CHOOSE i \in named : \A j \in named : i <= j
             IN  <<"wsd-", StandardType(chain[first])>>

\* the span that format emits last for a token piece carries the class
\* get_token_class returned for the piece's type (line 622)
IsLastOfPiece(rec, k) ==
    k = Len(rec.spans) \/ rec.spans[k + 1].piece # rec.spans[k].piece

\* C14: get_token_class returns, for every token type, the class of the
\* nearest type on the chain type, parent, ..., root that has a non-empty
\* short name, and the generic name class when no type on the chain has
\* one; so does every class format gets from it for a token.
C14_TokenClass ==
    /\ \A ttype \in TokenTypes : get_token_class(ttype) = NearestClass(ttype)
    /\ \A i \in 1..Len(RenderedLines) :
           \A k \in 1..Len(RenderedLines[i].spans) :
               IsLastOfPiece(RenderedLines[i], k) =>
                   RenderedLines[i].spans[k].cls
                       = NearestClass(RenderedLines[i].spans[k].ttype)

\* a line with a token named by its parent and a token with no named type
\* on its chain
C14_Witness ==
    \E i \in 1..Len(RenderedLines) :
        \E k1, k2 \in 1..Len(RenderedLines[i].spans) :
            /\ RenderedLines[i].spans[k1].ttype = "Token.Name.Custom"
            /\ RenderedLines[i].spans[k1].cls = <<"wsd-", "n">>
            /\ RenderedLines[i].spans[k2].ttype = "Token.Custom"
            /\ RenderedLines[i].spans[k2].cls = <<"n">>

---------------------------------------------------------------------------
(* Claims about token edges and the marker scanner, checked under SpecFmt *)

\* the token pieces of token line n, in order
LinePieces(n) == SelectSeq(yielded, LAMBDA piece : piece.lineno = n)

\* the offset in the line at which piece number k of the line starts
PieceStart(ps, k) == Len(Flatten([j \in 1..(k - 1) |-> ps[j].value]))

\* a marker of ms lies strictly inside piece number k
MarkerInside(ms, ps, k) ==
    \E i \in 1..Len(ms) :
        /\ PieceStart(ps, k) < ms[i].pos
        /\ ms[i].pos < PieceStart(ps, k) + Len(ps[k].value)

\* the number of spans emitted for piece number k
SpansOfPiece(rec, k) ==
    Cardinality({j \in 1..Len(rec.spans) : rec.spans[j].piece = k})

\* C17: a token with no marker strictly inside its text is emitted as
\* exactly one span; a marker at the first character of the token or at its
\* end adds no span.
C17_EdgeNoSplit ==
    \A i \in 1..Len(RenderedLines) :
        LET rec == RenderedLines[i]
            ps == LinePieces(rec.lineno)
        IN  \A k \in 1..Len(ps) :
                ~MarkerInside(rec.markers, ps, k) => SpansOfPiece(rec, k) = 1

\* the markers embedded in the marked text s from character i on, in order,
\* each with the number of plain characters before it; plain counts the
\* plain characters before character i
RECURSIVE EmbeddedFrom(_, _, _)
EmbeddedFrom(s, i, plain) ==
    IF i > Len(s) THEN <<>>
    ELSE IF s[i] = NUL /\ i < Len(s)
    THEN <<Marker(plain, <<NUL, s[i + 1]>>)>> \o EmbeddedFrom(s, i + 2, plain)
    ELSE IF s[i] = SOH
    THEN <<Marker(plain, <<SOH>>)>> \o EmbeddedFrom(s, i + 1, plain)
    ELSE EmbeddedFrom(s, i + 1, plain + 1)

\* the marked text s without its markers
RECURSIVE StripMarkers(_)
StripMarkers(s) ==
    IF s = <<>> THEN <<>>
    ELSE IF s[1] = NUL /\ Len(s) > 1 THEN StripMarkers(SubSeq(s, 3, Len(s)))
    ELSE IF s[1] = SOH THEN StripMarkers(Tail(s))
    ELSE <<s[1]>> \o StripMarkers(Tail(s))

\* the text between the separators that the scanner's split finds
PlainParts(s) ==
    LET parts == ReSplit(s)
    IN  Flatten([k \in 1..((Len(parts) + 1) \div 2) |-> parts[2 * k - 1]])

\* the marked text of the diff entry a record was rendered with
MarkedTextOf(rec) == diff[rec.src].ours[2]

\* the line of a record is scanned for markers: it is a line of this side
\* and the other side has a line as well
IsScanned(rec) == diff[rec.src].ours[1] # 0 /\ diff[rec.src].theirs[1] # 0

\* C18: the scanner yields one marker for every marker embedded in the
\* marked text, in order, each at the offset given by the number of plain
\* characters before it; the offsets do not decrease; the text between the
\* markers is the marked text without its markers.
C18_Scanner ==
    \A i \in 1..Len(RenderedLines) :
        LET rec == RenderedLines[i]
            ms == rec.markers
        IN  IsScanned(rec) =>
                /\ ms = EmbeddedFrom(MarkedTextOf(rec), 1, 0)
                /\ \A k \in 1..(Len(ms) - 1) : ms[k].pos <= ms[k + 1].pos
                /\ \A k \in 1..Len(ms) :
                       ms[k].pos <= Len(StripMarkers(MarkedTextOf(rec)))
                /\ PlainParts(MarkedTextOf(rec)) = StripMarkers(MarkedTextOf(rec))

\* a line of three characters that starts with a marker and ends with one,
\* with two more markers between them
C18_Witness ==
    \E i \in 1..Len(RenderedLines) :
        LET rec == RenderedLines[i]
        IN  /\ IsScanned(rec)
            /\ Len(rec.markers) = 4
            /\ rec.markers[1] = Marker(0, <<NUL, "^">>)
            /\ rec.markers[2] = Marker(1, <<SOH>>)
            /\ rec.markers[3] = Marker(2, <<NUL, "^">>)
            /\ rec.markers[4] = Marker(3, <<SOH>>)
            /\ Len(MarkedTextOf(rec)) = 9

\* C23: the markup of a rendered line is balanced: it has as many closing
\* span tags as opening span tags.
C23_BalancedSpans ==
    \A i \in 1..Len(RenderedLines) :
        RenderedLines[i].closes = RenderedLines[i].opens

---------------------------------------------------------------------------
(* Claims about html_diff_content as a whole, checked under SpecPipe *)

\* C21: in every zipped pair the changed flag of the left record equals the
\* changed flag of the right record, so a run that is unchanged by the left
\* flag holds no changed right record and no placeholder.
C21_FlagsAgree ==
    pc \in {"fold", "folded"} =>
        \A k \in 1..Len(Zipped) :
            /\ Zipped[k][1].change = Zipped[k][2].change
            /\ ~Zipped[k][1].change =>
                   Zipped[k][1].kind = "line" /\ Zipped[k][2].kind = "line"

\* the text of side s is empty: the diff has no line for the side
EmptyText(s) == \A j \in 1..Len(mdiff) : mdiff[j][s][1] = 0

\* C24: html_diff_content does not raise, whatever the texts, and in its
\* output a side whose text is empty contributes placeholder records only:
\* the records of that side in the zipped pairs and in out are placeholders.
C24_EmptyInputs ==
    /\ pc # "error"
    /\ pc \in {"fold", "folded"} =>
           \A k \in 1..Len(Zipped) :
               /\ EmptyText("left") => Zipped[k][1].kind = "empty"
               /\ EmptyText("right") => Zipped[k][2].kind = "empty"
    /\ \A n \in 1..Len(out) :
           (out[n].kind = "line" /\ EmptyText(out[n].line.side)) =>
               out[n].line.kind = "empty"

---------------------------------------------------------------------------
(* cli: the loop over the file pairs.  A path on disk is a file, with or   *)
(* without text in it, or a directory with a tree of entries under it.     *)

\* the relative paths a tree can have, in the order sorted() gives strings
Paths == <<"a", "d", "d/b">>

\* what a relative path is in a tree: nothing, a file without text, a file
\* with text, a directory
EntryKinds == {"none", "empty", "text", "dir"}

\* "d/b" exists only under the directory "d"
Trees == {tr \in [1..Len(Paths) -> EntryKinds] : tr[3] # "none" => tr[2] = "dir"}

PathStates ==
    [kind : {"file"}, content : {"empty", "text"}, tree : {<<>>}]
    \cup [kind : {"dir"}, content : {"dir"}, tree : Trees]

\* Path.read_text() of an entry, '' for None: the text, or the exception
ReadText(entry) ==
    CASE entry = "None" -> [text |-> "", exc |-> ""]
      [] entry = "empty" -> [text |-> "", exc |-> ""]
      [] entry = "text" -> [text |-> "x", exc |-> ""]
      [] entry = "dir" -> [text |-> "", exc |-> "IsADirectoryError"]

\* the dict found_files of directory mode, as sorted(found_files.items()):
\* glob('**/*') yields every entry under the root, directories as well
GlobBoth(old_tree, new_tree) ==
    LET all == [i \in 1..Len(Paths) |->
                   [suffix |-> Paths[i],
                    old |-> IF old_tree[i] = "none" THEN "None" ELSE old_tree[i],
                    new |-> IF new_tree[i] = "none" THEN "None" ELSE new_tree[i]]]
    IN  SelectIdx(all, LAMBDA i : old_tree[i] # "none" \/ new_tree[i] # "none", 1)

\* the lexers guess_lexer_for_filename(new, new_text) can lead to: the
\* guessed one, or 'text' when the guess raises; with new = None it raises
GuessedLexers(entry) ==
    IF entry.new = "None" THEN {"text"} ELSE {"guess", "text"}

\* html_diff_block raises when both texts are empty: the diff has no entry
\* and format reads its unbound loop variables for the lexer's "\n" token
BlockRaises(old_text, new_text) == old_text = "" /\ new_text = ""

\* the checks of the two paths and the building of found_files
CliFind ==
    /\ pc = "cli"
    /\ IF (old_path.kind = "file") # (new_path.kind = "file")
       THEN /\ pc' = "cli_exit"
            /\ UNCHANGED found_files
       ELSE /\ pc' = "cli_loop"
            /\ found_files' =
                   IF old_path.kind = "file"
                   THEN <<[suffix |-> "new", old |-> old_path.content,
                           new |-> new_path.content]>>
                   ELSE GlobBoth(old_path.tree, new_path.tree)
    /\ UNCHANGED <<args, old_path, new_path, fi, lexer, diff_blocks, raised>>
    /\ UNCHANGED lexVars
    /\ UNCHANGED fmtVars
    /\ UNCHANGED foldVars

\* one iteration of the loop over sorted(found_files.items())
CliBlock ==
    /\ pc = "cli_loop"
    /\ fi < Len(found_files)
    /\ LET entry == found_files[fi + 1]
           old_read == ReadText(entry.old)
           new_read == ReadText(entry.new)
       IN  IF old_read.exc # "" \/ new_read.exc # ""
           THEN /\ raised' = IF old_read.exc # "" THEN old_read.exc
                                                  ELSE new_read.exc
                /\ pc' = "cli_raised"
                /\ UNCHANGED <<lexer, diff_blocks, fi>>
           ELSE IF args.lexer # "None"
           THEN \* lexer = get_lexer_by_name(lexer) reads the local lexer
                /\ raised' = IF lexer = "unbound"
                             THEN "UnboundLocalError:lexer"
                             ELSE "ClassNotFound"
                /\ pc' = "cli_raised"
                /\ UNCHANGED <<lexer, diff_blocks, fi>>
           ELSE \E guessed \in GuessedLexers(entry) :
                  /\ lexer' = guessed
                  /\ IF BlockRaises(old_read.text, new_read.text)
                     THEN /\ raised' = "UnboundLocalError:change"
                          /\ pc' = "cli_raised"
                          /\ UNCHANGED <<diff_blocks, fi>>
                     ELSE /\ diff_blocks' =
                                Append(diff_blocks,
                                       [suffix |-> entry.suffix,
                                        lexer |-> guessed,
                                        old_text |-> old_read.text,
                                        new_text |-> new_read.text])
                          /\ fi' = fi + 1
                          /\ UNCHANGED <<raised, pc>>
    /\ UNCHANGED <<args, old_path, new_path, found_files>>
    /\ UNCHANGED lexVars
    /\ UNCHANGED fmtVars
    /\ UNCHANGED foldVars

\* the loop is over: the blocks are joined and printed
CliPrint ==
    /\ pc = "cli_loop"
    /\ fi = Len(found_files)
    /\ pc' = "cli_done"
    /\ UNCHANGED cliVars
    /\ UNCHANGED lexVars
    /\ UNCHANGED fmtVars
    /\ UNCHANGED foldVars

InitCli ==
    /\ args \in [lexer : {"None", "python"}]
    /\ old_path \in PathStates
    /\ new_path \in PathStates
    /\ found_files = <<>> /\ fi = 0
    /\ lexer = "unbound" /\ diff_blocks = <<>> /\ raised = ""
    /\ pc = "cli"
    /\ tokensource = <<>> /\ ti = 0 /\ lineno = 1 /\ yielded = <<>>
    /\ side = "left" /\ mdiff = <<>> /\ diff = <<>>
    /\ di = 0 /\ cur = 0 /\ pi = 0 /\ lines = <<>>
    /\ fmt_l = <<>> /\ fmt_r = <<>>
    /\ context_len = 0 /\ fold_min = 0 /\ gi = 0 /\ out = <<>>

NextCli == CliFind \/ CliBlock \/ CliPrint

SpecCli == InitCli /\ [][NextCli]_vars

---------------------------------------------------------------------------
(* Claims about cli, checked under SpecCli *)

\* C15: with -l NAME every file pair of the run is highlighted with the
\* lexer NAME: the run does not fail over the lexer and, once the loop is
\* over, every pair has a block made with NAME; without -l the lexer of a
\* block is the one guessed for the new file, or 'text'.
C15_LexerSelection ==
    /\ raised \notin {"UnboundLocalError:lexer", "ClassNotFound"}
    /\ \A k \in 1..Len(diff_blocks) :
           IF args.lexer # "None"
           THEN diff_blocks[k].lexer = args.lexer
           ELSE diff_blocks[k].lexer \in {"guess", "text"}
    /\ (pc = "cli_done" /\ args.lexer # "None") =>
           Len(diff_blocks) = Len(found_files)

\* the relative paths found under either tree, sorted
FoundPaths ==
    SelectIdx(Paths, LAMBDA i : old_path.tree[i] # "none"
                                \/ new_path.tree[i] # "none", 1)

\* C16: given two directories and no -l, the run completes, and it makes
\* exactly one block for every relative path under either tree, in sorted
\* order of the paths, with the empty text for a side that lacks the path.
C16_DirectoryMode ==
    (old_path.kind = "dir" /\ new_path.kind = "dir" /\ args.lexer = "None") =>
        /\ raised = ""
        /\ pc = "cli_done" =>
              /\ [k \in 1..Len(diff_blocks) |-> diff_blocks[k].suffix] = FoundPaths
              /\ \A k \in 1..Len(diff_blocks) :
                     /\ found_files[k].old = "None" => diff_blocks[k].old_text = ""
                     /\ found_files[k].new = "None" => diff_blocks[k].new_text = ""


=============================================================================
